---- MODULE Spec2Model ----
(***************************************************************************)
(* Model of the pokemon-engine reward engine (src/src/engine/*.rs) over    *)
(* the in-memory storage (src/src/storage.rs).                             *)
(*                                                                         *)
(* Amounts are in whole POKE: every amount in the source is a multiple of  *)
(* 1_000_000_000 lamports, so 500_000_000_000 lamports is written 500.     *)
(* Dates are day numbers 0..MaxDay; `now` is the UTC date of Utc::now().   *)
(* An Option<T> is a set with at most one element: None is {}.             *)
(*                                                                         *)
(* Every handler is an async fn whose storage calls are await points, so a *)
(* handler is a sequence of steps, one per storage call; each storage call *)
(* holds its map's lock for its whole body and is atomic.  A task is one   *)
(* in-flight call of a handler with its local variables.                   *)
(*                                                                         *)
(* Event inputs are far below the levels at which the calculator's u64     *)
(* arithmetic overflows, and Uuid::new_v4() never repeats an id.  The      *)
(* calculator by itself (SpecCalculator) is also applied to levels at      *)
(* which the u64 sum does not fit.                                         *)
(***************************************************************************)
EXTENDS Integers, Sequences, FiniteSets, TLC

\* ------------------------------------------------------------------ bounds
MaxDay == 2
MaxRewards == 2
MaxLogins == 4
MaxConcurrentRewards == 3

Days == 0..MaxDay
Players == {"alice", "bob"}
Tasks == {"t1", "t2"}

\* inputs of the events
Scores == {2500}
HighScores == BOOLEAN
Levels == {2, 5, 13}
BattleStreaks == {1}
ConcurrentLevels == {5}

\* ------------------------------------------------- Config::default (POKE)
FlyPokeDailyLimit == 500
BattleDailyLimit == 300
PokeMatchDailyLimit == 200
BattleBaseReward == 50
LoginDailyReward == 20
StreakReward3 == 30
StreakReward7 == 50
WelcomeReward == 100

None == {}
Some(x) == {x}
Unwrap(o) == CHOOSE x \in o : TRUE

\* --------------------------------------------------------------- calculator
\* faulty variant: the tier boundaries are exclusive
calculate_flypoke_rewardExclusive(score, is_new_high_score) ==
    LET amount == IF score > 2000 THEN 100
                  ELSE IF score > 1001 THEN 50
                  ELSE IF score > 501 THEN 25
                  ELSE 10
    IN  IF is_new_high_score THEN amount + 20 ELSE amount


calculate_flypoke_reward(score, is_new_high_score) ==
    LET amount == IF score >= 2000 THEN 100
                  ELSE IF score >= 1001 THEN 50
                  ELSE IF score >= 501 THEN 25
                  ELSE 10
    IN  IF is_new_high_score THEN amount + 20 ELSE amount

calculate_battle_reward(level, streak) ==
    LET base == BattleBaseReward
        level_bonus == level * 20
        streak_bonus == IF streak >= 3 THEN 20
                        ELSE IF streak >= 2 THEN 10
                        ELSE 0
    IN  base + level_bonus + streak_bonus

\* faulty variant: the lower threshold is looked up first
calculate_login_rewardLowestFirst(streak) ==
    IF streak >= 3 THEN StreakReward3
    ELSE IF streak >= 7 THEN StreakReward7
    ELSE LoginDailyReward


calculate_login_reward(streak) ==
    IF streak >= 7 THEN StreakReward7
    ELSE IF streak >= 3 THEN StreakReward3
    ELSE LoginDailyReward

get_welcome_reward == WelcomeReward

get_daily_limit(game_type) ==
    CASE game_type = "FlyPoke" -> Some(FlyPokeDailyLimit)
      [] game_type = "Battle" -> Some(BattleDailyLimit)
      [] game_type = "PokeMatch" -> Some(PokeMatchDailyLimit)
      [] OTHER -> None

\* -------------------------------------------------------------------- state
VARIABLES
    rewards,        \* MemoryStorage.rewards: id -> Reward
    daily_stats,    \* MemoryStorage.daily_stats: <<player, date>> -> DailyStats
    login_streaks,  \* MemoryStorage.login_streaks: player -> LoginStreak
    now,            \* the UTC date the wall clock shows
    tasks,          \* the in-flight handler calls and their locals
    limit_hit,      \* history: one limit rejection a caller has noted, or None
    login_dates,    \* history: <<player, today>> of every login that got a reward
    capacity,       \* bound of the run: the number of reward records it may create
    calc,           \* a call of the RewardCalculator alone: its arguments and result
    locks           \* the RwLock guards each call holds on the three maps

storage == <<rewards, daily_stats, login_streaks>>
vars == <<rewards, daily_stats, login_streaks, now, tasks, limit_hit, login_dates,
          capacity, calc, locks>>
history == <<limit_hit, login_dates, capacity, calc, locks>>

\* HashMap::insert
Insert(map, key, value) ==
    [k \in DOMAIN map \cup {key} |-> IF k = key THEN value ELSE map[k]]

\* HashMap::get(..).cloned()
Get(map, key) == IF key \in DOMAIN map THEN Some(map[key]) ELSE None

NoResponse == [result |-> "none", success |-> FALSE, reward |-> None,
               message |-> "", daily_limit_reached |-> FALSE]

\* `since` is the date at the call's previous step (a later Utc::now() of the
\* call reads a date from since..now); `checked` keeps what the limit check read
\* and `before` the storage the call started from, for the properties
Idle == [pc |-> "idle", game |-> "", player |-> "", amount |-> 0,
         today |-> 0, since |-> 0, stats |-> None, streak |-> None,
         reward |-> None, resp |-> NoResponse, checked |-> None, before |-> None]

\* A handler that returned: its locals are dropped, its call and response stay.
Returned(task, resp) ==
    [Idle EXCEPT !.pc = "done", !.game = task.game, !.player = task.player,
                 !.amount = task.amount, !.today = task.today, !.resp = resp,
                 !.before = task.before]

Rejection(msg, limit) ==
    [result |-> "Ok", success |-> FALSE, reward |-> None,
     message |-> msg, daily_limit_reached |-> limit]

Success(reward, msg) ==
    [result |-> "Ok", success |-> TRUE, reward |-> Some(reward),
     message |-> msg, daily_limit_reached |-> FALSE]

\* Ok(()) of claim_rewards
OkUnit == [NoResponse EXCEPT !.result = "Ok(())"]

\* Err(PokemonEngineError::<kind>)
Fault(kind) ==
    [result |-> kind, success |-> FALSE, reward |-> None,
     message |-> "", daily_limit_reached |-> FALSE]

\* MemoryStorage::new: three empty maps
Empty(max) ==
    /\ rewards = <<>>
    /\ daily_stats = <<>>
    /\ login_streaks = <<>>
    /\ now = 0
    /\ tasks = [t \in Tasks |-> Idle]
    /\ limit_hit = None
    /\ login_dates = {}
    /\ capacity = max
    /\ calc = None
    /\ locks = [t \in Tasks |-> {}]

Init == Empty(MaxRewards)

\* ------------------------------------------------------------ task helpers
Free(t) == tasks[t].pc \in {"idle", "done"}

\* calls that have not yet inserted the reward record they may create
Creating == {t \in Tasks : tasks[t].pc \in
                {"limit_check", "get_streak", "update_streak", "has_welcome", "create"}}

\* bound of the model: the number of reward records ever created
Room == Cardinality(DOMAIN rewards) + Cardinality(Creating) < capacity

Call(game, p, amount) ==
    [Idle EXCEPT !.game = game, !.player = p, !.amount = amount,
                 !.today = now, !.since = now, !.before = Some(storage)]

GameSum(stats, game) ==
    CASE game = "FlyPoke" -> stats.flypoke
      [] game = "Battle" -> stats.battle
      [] game = "Login" -> stats.login
      [] OTHER -> 0

\* Uuid::new_v4() is a fresh id; timestamp is Utc::now() read after the
\* previous await returned and before this one
NewReward(task, id, ts) ==
    [id |-> id, player_id |-> task.player, game |-> task.game,
     amount |-> task.amount, day |-> ts, claimed |-> FALSE,
     transaction_signature |-> None]

\* --------------------------------------------- process_flypoke/battle_event
\* lines 35-42: the reward amount and `today` are computed before the first await
BeginFlyPoke(t, p, score, is_new_high_score) ==
    /\ Free(t) /\ Room
    /\ tasks' = [tasks EXCEPT ![t] =
          [Call("FlyPoke", p, calculate_flypoke_reward(score, is_new_high_score))
             EXCEPT !.pc = "limit_check"]]
    /\ UNCHANGED <<storage, now, history>>

BeginBattle(t, p, level, streak) ==
    /\ Free(t) /\ Room
    /\ tasks' = [tasks EXCEPT ![t] =
          [Call("Battle", p, calculate_battle_reward(level, streak))
             EXCEPT !.pc = "limit_check"]]
    /\ UNCHANGED <<storage, now, history>>

\* faulty variant: the comparison of the limit check is reversed
OverLimitReversed(stats, game, amount) ==
    /\ get_daily_limit(game) # None
    /\ stats # None
    /\ GameSum(Unwrap(stats), game) + amount < Unwrap(get_daily_limit(game))

LimitMessage(game) ==
    IF game = "FlyPoke" THEN "Daily limit reached for FlyPoke"
    ELSE "Daily limit reached for Battle"

\* the limit is checked only against an aggregate that exists (if let Some(stats))
OverLimit(stats, game, amount) ==
    /\ get_daily_limit(game) # None
    /\ stats # None
    /\ GameSum(Unwrap(stats), game) + amount > Unwrap(get_daily_limit(game))

\* faulty variant: the reward record is stored before the limit is checked
LimitCheckAfterCreate(t) ==
    LET task == tasks[t]
        stats == Get(daily_stats, <<task.player, task.today>>)
        id == Cardinality(DOMAIN rewards) + 1
    IN  /\ task.pc = "limit_check"
        /\ IF OverLimit(stats, task.game, task.amount)
           THEN /\ rewards' = Insert(rewards, id, NewReward(task, id, now))
                /\ tasks' = [tasks EXCEPT ![t] =
                      Returned(task, Rejection(LimitMessage(task.game), TRUE))]
           ELSE /\ tasks' = [tasks EXCEPT ![t].pc = "create", ![t].since = now,
                                 ![t].checked = stats]
                /\ UNCHANGED rewards
        /\ UNCHANGED <<daily_stats, login_streaks, now, history>>

LimitCheck(t) ==
    LET task == tasks[t]
        stats == Get(daily_stats, <<task.player, task.today>>)
    IN  /\ task.pc = "limit_check"
        /\ tasks' = [tasks EXCEPT ![t] =
              IF OverLimit(stats, task.game, task.amount)
              THEN Returned(task, Rejection(LimitMessage(task.game), TRUE))
              ELSE [task EXCEPT !.pc = "create", !.since = now, !.checked = stats]]
        /\ UNCHANGED <<storage, now, history>>

\* history only: the caller keeps the limit rejection it was just returned
NoteLimitHit(t) ==
    LET task == tasks[t]
    IN  /\ task.pc = "done" /\ task.resp.daily_limit_reached
        /\ limit_hit = None
        /\ limit_hit' = Some([player |-> task.player, game |-> task.game,
                              today |-> task.today, amount |-> task.amount])
        /\ UNCHANGED <<storage, now, tasks, login_dates, capacity, calc, locks>>

\* ------------------------------------------------------------ create_reward
SuccessMessage(game) ==
    CASE game = "Login" -> "Login reward processed successfully"
      [] game = "Welcome" -> "Welcome bonus processed successfully"
      [] OTHER -> "Reward processed successfully"

\* faulty variant: a Welcome reward goes on to update_daily_stats like the others
CreateRewardCountingWelcome(t) ==
    LET task == tasks[t]
        id == Cardinality(DOMAIN rewards) + 1
    IN  /\ task.pc = "create"
        /\ \E ts \in task.since..now :
             LET reward == NewReward(task, id, ts)
             IN  /\ rewards' = Insert(rewards, id, reward)
                 /\ tasks' = [tasks EXCEPT ![t] =
                       [task EXCEPT !.pc = "stats_read", !.since = now,
                                    !.reward = Some(reward)]]
        /\ login_dates' = IF task.game = "Login"
                          THEN login_dates \cup {<<task.player, task.today>>}
                          ELSE login_dates
        /\ UNCHANGED <<daily_stats, login_streaks, now, limit_hit, capacity, calc, locks>>


\* faulty variant: the new record is stored under the id of the latest one
CreateRewardReusingId(t) ==
    LET task == tasks[t]
        n == Cardinality(DOMAIN rewards)
        id == IF n = 0 THEN 1 ELSE n
    IN  /\ task.pc = "create"
        /\ \E ts \in task.since..now :
             LET reward == NewReward(task, id, ts)
             IN  /\ rewards' = Insert(rewards, id, reward)
                 /\ tasks' = [tasks EXCEPT ![t] =
                       IF task.game = "Welcome"
                       THEN Returned(task, Success(reward, SuccessMessage(task.game)))
                       ELSE [task EXCEPT !.pc = "stats_read", !.since = now,
                                         !.reward = Some(reward)]]
        /\ login_dates' = IF task.game = "Login"
                          THEN login_dates \cup {<<task.player, task.today>>}
                          ELSE login_dates
        /\ UNCHANGED <<daily_stats, login_streaks, now, limit_hit, capacity, calc, locks>>


CreateReward(t) ==
    LET task == tasks[t]
        id == Cardinality(DOMAIN rewards) + 1
    IN  /\ task.pc = "create"
        /\ \E ts \in task.since..now :
             LET reward == NewReward(task, id, ts)
             IN  /\ rewards' = Insert(rewards, id, reward)
                 /\ tasks' = [tasks EXCEPT ![t] =
                       IF task.game = "Welcome"
                       THEN Returned(task, Success(reward, SuccessMessage(task.game)))
                       ELSE [task EXCEPT !.pc = "stats_read", !.since = now,
                                         !.reward = Some(reward)]]
        /\ login_dates' = IF task.game = "Login"
                          THEN login_dates \cup {<<task.player, task.today>>}
                          ELSE login_dates
        /\ UNCHANGED <<daily_stats, login_streaks, now, limit_hit, capacity, calc, locks>>

\* -------------------------------------------------------- update_daily_stats
\* faulty variant: a new aggregate does not start from zero
ZeroStatsCounting(p, date) ==
    [player_id |-> p, date |-> date, flypoke |-> 10, battle |-> 10, login |-> 0, total |-> 20]


ZeroStats(p, date) ==
    [player_id |-> p, date |-> date, flypoke |-> 0, battle |-> 0, login |-> 0, total |-> 0]

\* faulty variant: the total leaves the login bucket out
AddAmountNoLogin(stats, game, amount) ==
    LET s == CASE game = "FlyPoke" -> [stats EXCEPT !.flypoke = @ + amount]
               [] game = "Battle" -> [stats EXCEPT !.battle = @ + amount]
               [] game = "Login" -> [stats EXCEPT !.login = @ + amount]
               [] OTHER -> stats
    IN  [s EXCEPT !.total = s.flypoke + s.battle]

AddAmount(stats, game, amount) ==
    LET s == CASE game = "FlyPoke" -> [stats EXCEPT !.flypoke = @ + amount]
               [] game = "Battle" -> [stats EXCEPT !.battle = @ + amount]
               [] game = "Login" -> [stats EXCEPT !.login = @ + amount]
               [] OTHER -> stats
    IN  [s EXCEPT !.total = s.flypoke + s.battle + s.login]

\* lines 285-306: `today` is read again, the aggregate is read and changed locally
StatsRead(t) ==
    LET task == tasks[t]
    IN  /\ task.pc = "stats_read"
        /\ \E today \in task.since..now :
             LET found == Get(daily_stats, <<task.player, today>>)
                 stats == IF found # None THEN Unwrap(found)
                          ELSE ZeroStats(task.player, today)
             IN  tasks' = [tasks EXCEPT ![t].pc = "stats_write",
                              ![t].stats = Some(AddAmount(stats, task.game, task.amount))]
        /\ UNCHANGED <<storage, now, history>>

\* line 308, and the handler's Ok(RewardResponse) after it
StatsWrite(t) ==
    LET task == tasks[t]
        stats == Unwrap(task.stats)
    IN  /\ task.pc = "stats_write"
        /\ daily_stats' = Insert(daily_stats, <<stats.player_id, stats.date>>, stats)
        /\ tasks' = [tasks EXCEPT ![t] =
              Returned(task, Success(Unwrap(task.reward), SuccessMessage(task.game)))]
        /\ UNCHANGED <<rewards, login_streaks, now, history>>

\* ------------------------------------------------------ process_login_event
BeginLogin(t, p) ==
    /\ Free(t) /\ Room
    /\ tasks' = [tasks EXCEPT ![t] = [Call("Login", p, 0) EXCEPT !.pc = "get_streak"]]
    /\ UNCHANGED <<storage, now, history>>

\* faulty variant: a gap does not reset the streak
NextStreakNoReset(found, p, today) ==
    IF found = None
    THEN Some([player_id |-> p, current_streak |-> 1, last_login_date |-> today])
    ELSE LET streak_data == Unwrap(found)
         IN  IF streak_data.last_login_date = today THEN None
             ELSE Some([streak_data EXCEPT !.current_streak = @ + 1,
                                           !.last_login_date = today])

\* faulty variant: a login on the date of the last login is not rejected
NextStreakNoSameDay(found, p, today) ==
    IF found = None
    THEN Some([player_id |-> p, current_streak |-> 1, last_login_date |-> today])
    ELSE LET streak_data == Unwrap(found)
             yesterday == today - 1
         IN  IF streak_data.last_login_date = yesterday
             THEN Some([streak_data EXCEPT !.current_streak = @ + 1,
                                           !.last_login_date = today])
             ELSE Some([streak_data EXCEPT !.current_streak = 1,
                                           !.last_login_date = today])

\* lines 139-169: the streak the handler will store, or None when it rejects
NextStreak(found, p, today) ==
    IF found = None
    THEN Some([player_id |-> p, current_streak |-> 1, last_login_date |-> today])
    ELSE LET streak_data == Unwrap(found)
             yesterday == today - 1
         IN  IF streak_data.last_login_date = today THEN None
             ELSE IF streak_data.last_login_date = yesterday
             THEN Some([streak_data EXCEPT !.current_streak = @ + 1,
                                           !.last_login_date = today])
             ELSE Some([streak_data EXCEPT !.current_streak = 1,
                                           !.last_login_date = today])

GetStreak(t) ==
    LET task == tasks[t]
        next == NextStreak(Get(login_streaks, task.player), task.player, task.today)
    IN  /\ task.pc = "get_streak"
        /\ tasks' = [tasks EXCEPT ![t] =
              IF next = None
              THEN Returned(task, Rejection("Already logged in today", FALSE))
              ELSE [task EXCEPT !.pc = "update_streak", !.streak = next]]
        /\ UNCHANGED <<storage, now, history>>

\* faulty variant: the reward is computed from the streak length before the update
UpdateStreakRewardingOld(t) ==
    LET task == tasks[t]
        streak_data == Unwrap(task.streak)
    IN  /\ task.pc = "update_streak"
        /\ login_streaks' = Insert(login_streaks, streak_data.player_id, streak_data)
        /\ tasks' = [tasks EXCEPT ![t].pc = "create", ![t].since = now,
                         ![t].amount = calculate_login_reward(streak_data.current_streak - 1)]
        /\ UNCHANGED <<rewards, daily_stats, now, history>>


\* lines 160/170, then line 176
UpdateStreak(t) ==
    LET task == tasks[t]
        streak_data == Unwrap(task.streak)
    IN  /\ task.pc = "update_streak"
        /\ login_streaks' = Insert(login_streaks, streak_data.player_id, streak_data)
        /\ tasks' = [tasks EXCEPT ![t].pc = "create", ![t].since = now,
                         ![t].amount = calculate_login_reward(streak_data.current_streak)]
        /\ UNCHANGED <<rewards, daily_stats, now, history>>

\* ---------------------------------------------------- process_welcome_event
BeginWelcome(t, p) ==
    /\ Free(t) /\ Room
    /\ tasks' = [tasks EXCEPT ![t] = [Call("Welcome", p, 0) EXCEPT !.pc = "has_welcome"]]
    /\ UNCHANGED <<storage, now, history>>

\* faulty variant: a claimed Welcome record counts as well
has_welcome_bonusEverGranted(p) ==
    \E id \in DOMAIN rewards :
        /\ rewards[id].player_id = p
        /\ rewards[id].game = "Welcome"


\* faulty variant: an unclaimed Welcome record of any player counts
has_welcome_bonusOfAnyone(p) ==
    \E id \in DOMAIN rewards :
        /\ rewards[id].game = "Welcome"
        /\ ~rewards[id].claimed


\* MemoryStorage::has_welcome_bonus
has_welcome_bonus(p) ==
    \E id \in DOMAIN rewards :
        /\ rewards[id].player_id = p
        /\ rewards[id].game = "Welcome"
        /\ ~rewards[id].claimed

HasWelcome(t) ==
    LET task == tasks[t]
    IN  /\ task.pc = "has_welcome"
        /\ tasks' = [tasks EXCEPT ![t] =
              IF has_welcome_bonus(task.player)
              THEN Returned(task, Rejection("Welcome bonus already claimed", FALSE))
              ELSE [task EXCEPT !.pc = "create", !.since = now,
                                !.amount = get_welcome_reward]]
        /\ UNCHANGED <<storage, now, history>>

\* ------------------------------------------------------------ claim_rewards
\* faulty variant: the records of every player are marked, not only p's
mark_all_rewards_claimedOfAnyone(p) ==
    [id \in DOMAIN rewards |-> [rewards[id] EXCEPT !.claimed = TRUE]]


\* MemoryStorage::mark_all_rewards_claimed
mark_all_rewards_claimed(p) ==
    [id \in DOMAIN rewards |->
        IF rewards[id].player_id = p /\ ~rewards[id].claimed
        THEN [rewards[id] EXCEPT !.claimed = TRUE]
        ELSE rewards[id]]

ClaimRewards(t, p) ==
    /\ Free(t)
    /\ rewards' = mark_all_rewards_claimed(p)
    /\ tasks' = [tasks EXCEPT ![t] = Returned(Call("Claim", p, 0), OkUnit)]
    /\ UNCHANGED <<daily_stats, login_streaks, now, history>>

\* MemoryStorage::mark_reward_claimed, called on the storage directly (no
\* engine method wraps it): Err(Storage) when the id is not stored
MarkRewardClaimed(t, id) ==
    /\ Free(t)
    /\ rewards' = IF id \in DOMAIN rewards
                  THEN [rewards EXCEPT ![id].claimed = TRUE]
                  ELSE rewards
    /\ tasks' = [tasks EXCEPT ![t] =
          Returned([Call("mark_reward_claimed", "", 0) EXCEPT !.amount = id],
                   IF id \in DOMAIN rewards THEN OkUnit ELSE Fault("Storage"))]
    /\ UNCHANGED <<daily_stats, login_streaks, now, history>>


\* ------------------------------------------------------- process_game_event
GameTypes == {"FlyPoke", "Battle", "PokeMatch", "Pokedex", "Login", "Welcome"}

\* A serde_json::Value of a payload field: absent, null, a number, a bool or a string
JAbsent == [kind |-> "absent", num |-> 0, bool |-> FALSE]
JNull == [kind |-> "null", num |-> 0, bool |-> FALSE]
JNumber(n) == [kind |-> "number", num |-> n, bool |-> FALSE]
JBool(b) == [kind |-> "bool", num |-> 0, bool |-> b]
JString == [kind |-> "string", num |-> 0, bool |-> FALSE]

\* GameEvent.event_data: a JSON object with these fields (serde ignores any other)
Object(score, is_new_high_score, level, streak, perfect_victory) ==
    [object |-> TRUE, score |-> score, is_new_high_score |-> is_new_high_score,
     level |-> level, streak |-> streak, perfect_victory |-> perfect_victory]

\* GameEvent.event_data that is no JSON object
NotAnObject ==
    [object |-> FALSE, score |-> JAbsent, is_new_high_score |-> JAbsent,
     level |-> JAbsent, streak |-> JAbsent, perfect_victory |-> JAbsent]

Payloads ==
    { Object(JNumber(2500), JBool(TRUE), JAbsent, JAbsent, JAbsent),
      Object(JNumber(2500), JBool(FALSE), JNumber(3), JAbsent, JAbsent),
      Object(JNumber(2500), JBool(FALSE), JNumber(5), JNumber(1), JNull),
      Object(JString, JBool(TRUE), JAbsent, JAbsent, JAbsent),
      Object(JNumber(-1), JBool(TRUE), JAbsent, JAbsent, JAbsent),
      Object(JNumber(2500), JAbsent, JAbsent, JAbsent, JAbsent),
      Object(JNumber(2500), JBool(TRUE), JString, JAbsent, JAbsent),
      Object(JAbsent, JAbsent, JNumber(2), JNumber(1), JAbsent),
      Object(JAbsent, JAbsent, JNumber(13), JNumber(1), JBool(TRUE)),
      Object(JAbsent, JAbsent, JNumber(5), JAbsent, JAbsent),
      Object(JAbsent, JAbsent, JNumber(5), JNumber(1), JNumber(1)),
      NotAnObject }

GameEvents == [player_id : {"alice"}, game : GameTypes, event_data : Payloads]

\* serde's u32, bool, Option<u32> and Option<bool>: Some(value) or None for an
\* error (every number of the model is below u32::MAX)
DecodeU32(v) == IF v.kind = "number" /\ v.num >= 0 THEN Some(v.num) ELSE None

DecodeBool(v) == IF v.kind = "bool" THEN Some(v.bool) ELSE None

DecodeOptionU32(v) ==
    IF v.kind \in {"absent", "null"} THEN Some(None)
    ELSE IF DecodeU32(v) # None THEN Some(DecodeU32(v))
    ELSE None

DecodeOptionBool(v) ==
    IF v.kind \in {"absent", "null"} THEN Some(None)
    ELSE IF DecodeBool(v) # None THEN Some(DecodeBool(v))
    ELSE None

\* serde_json::from_value::<FlyPokeEventData>
from_value_FlyPokeEventData(v) ==
    IF \/ ~v.object
       \/ DecodeU32(v.score) = None
       \/ DecodeBool(v.is_new_high_score) = None
       \/ DecodeOptionU32(v.level) = None
    THEN None
    ELSE Some([score |-> Unwrap(DecodeU32(v.score)),
               is_new_high_score |-> Unwrap(DecodeBool(v.is_new_high_score)),
               level |-> Unwrap(DecodeOptionU32(v.level))])

\* serde_json::from_value::<BattleEventData>
from_value_BattleEventData(v) ==
    IF \/ ~v.object
       \/ DecodeU32(v.level) = None
       \/ DecodeU32(v.streak) = None
       \/ DecodeOptionBool(v.perfect_victory) = None
    THEN None
    ELSE Some([level |-> Unwrap(DecodeU32(v.level)),
               streak |-> Unwrap(DecodeU32(v.streak)),
               perfect_victory |-> Unwrap(DecodeOptionBool(v.perfect_victory))])

\* A call that returns Err before its first storage call
Fail(t, event, kind) ==
    /\ Free(t)
    /\ tasks' = [tasks EXCEPT ![t] =
          Returned(Call(event.game, event.player_id, 0), Fault(kind))]
    /\ UNCHANGED <<storage, now, history>>

\* faulty variant: a game kind without a handler gets a rejection response
ProcessGameEventRejectingUnknown(t, event) ==
    LET fly == from_value_FlyPokeEventData(event.event_data)
        battle == from_value_BattleEventData(event.event_data)
    IN  CASE event.game = "FlyPoke" ->
                IF fly = None THEN Fail(t, event, "Serialization")
                ELSE BeginFlyPoke(t, event.player_id, Unwrap(fly).score,
                                  Unwrap(fly).is_new_high_score)
          [] event.game = "Battle" ->
                IF battle = None THEN Fail(t, event, "Serialization")
                ELSE BeginBattle(t, event.player_id, Unwrap(battle).level,
                                 Unwrap(battle).streak)
          [] event.game = "Login" -> BeginLogin(t, event.player_id)
          [] event.game = "Welcome" -> BeginWelcome(t, event.player_id)
          [] OTHER ->
                /\ Free(t)
                /\ tasks' = [tasks EXCEPT ![t] =
                      Returned(Call(event.game, event.player_id, 0),
                               Rejection("Invalid game type", FALSE))]
                /\ UNCHANGED <<storage, now, history>>

\* faulty variant: a payload that fails to decode is replaced by a default one
ProcessGameEventDefaultingPayload(t, event) ==
    LET fly == from_value_FlyPokeEventData(event.event_data)
        battle == from_value_BattleEventData(event.event_data)
    IN  CASE event.game = "FlyPoke" ->
                IF fly = None THEN BeginFlyPoke(t, event.player_id, 0, FALSE)
                ELSE BeginFlyPoke(t, event.player_id, Unwrap(fly).score,
                                  Unwrap(fly).is_new_high_score)
          [] event.game = "Battle" ->
                IF battle = None THEN BeginBattle(t, event.player_id, 0, 0)
                ELSE BeginBattle(t, event.player_id, Unwrap(battle).level,
                                 Unwrap(battle).streak)
          [] event.game = "Login" -> BeginLogin(t, event.player_id)
          [] event.game = "Welcome" -> BeginWelcome(t, event.player_id)
          [] OTHER -> Fail(t, event, "InvalidGameType")

\* lines 244-260: the payload is decoded, with `?`, before the handler is called
ProcessGameEvent(t, event) ==
    LET fly == from_value_FlyPokeEventData(event.event_data)
        battle == from_value_BattleEventData(event.event_data)
    IN  CASE event.game = "FlyPoke" ->
                IF fly = None THEN Fail(t, event, "Serialization")
                ELSE BeginFlyPoke(t, event.player_id, Unwrap(fly).score,
                                  Unwrap(fly).is_new_high_score)
          [] event.game = "Battle" ->
                IF battle = None THEN Fail(t, event, "Serialization")
                ELSE BeginBattle(t, event.player_id, Unwrap(battle).level,
                                 Unwrap(battle).streak)
          [] event.game = "Login" -> BeginLogin(t, event.player_id)
          [] event.game = "Welcome" -> BeginWelcome(t, event.player_id)
          [] OTHER -> Fail(t, event, "InvalidGameType")


\* ------------------------------------------------------------- read queries
\* Ok(v): a Vec<Reward> (as the set of its records, HashMap::values() having no
\* order of its own) or an Option<DailyStats>
OkValue(v) == [NoResponse EXCEPT !.result = "Ok", !.reward = v]

\* MemoryStorage::get_rewards
get_rewards(p) == {rewards[id] : id \in {i \in DOMAIN rewards : rewards[i].player_id = p}}

\* MemoryStorage::get_pending_rewards
get_pending_rewards(p) ==
    {rewards[id] : id \in {i \in DOMAIN rewards :
                              rewards[i].player_id = p /\ ~rewards[i].claimed}}

GetRewards(t, p) ==
    /\ Free(t)
    /\ tasks' = [tasks EXCEPT ![t] =
          Returned(Call("get_rewards", p, 0), OkValue(get_rewards(p)))]
    /\ UNCHANGED <<storage, now, history>>

\* faulty variant: the pending rewards are handed out and marked claimed
GetPendingRewardsTaking(t, p) ==
    /\ Free(t)
    /\ tasks' = [tasks EXCEPT ![t] =
          Returned(Call("get_pending_rewards", p, 0), OkValue(get_pending_rewards(p)))]
    /\ rewards' = mark_all_rewards_claimed(p)
    /\ UNCHANGED <<daily_stats, login_streaks, now, history>>

GetPendingRewards(t, p) ==
    /\ Free(t)
    /\ tasks' = [tasks EXCEPT ![t] =
          Returned(Call("get_pending_rewards", p, 0), OkValue(get_pending_rewards(p)))]
    /\ UNCHANGED <<storage, now, history>>

GetDailyStats(t, p, date) ==
    /\ Free(t)
    /\ tasks' = [tasks EXCEPT ![t] =
          Returned([Call("get_daily_stats", p, 0) EXCEPT !.today = date],
                   OkValue(Get(daily_stats, <<p, date>>)))]
    /\ UNCHANGED <<storage, now, history>>


\* ------------------------------------------------------------ storage faults
\* The engine holds a Box<dyn Storage>: any call of the trait may return Err,
\* which the handler's `?` returns to the caller at once.  (MemoryStorage's
\* calls used by the handlers never do.)
StorageFail(t) ==
    /\ tasks[t].pc \in {"limit_check", "create", "stats_read", "stats_write",
                         "get_streak", "update_streak", "has_welcome"}
    /\ tasks' = [tasks EXCEPT ![t] = Returned(tasks[t], Fault("Storage"))]
    /\ UNCHANGED <<storage, now, history>>

\* -------------------------------------------------------------------- clock
Tick ==
    /\ now < MaxDay
    /\ now' = now + 1
    /\ UNCHANGED <<storage, tasks, history>>

\* ------------------------------------------------- the calculator by itself
\* Inputs of the calculator's functions: every score up to MaxScore, the levels
\* up to MaxLevel and the levels around the one at which the u64 sum no longer
\* fits, and the streaks up to MaxStreak
MaxScore == 2500
MaxLevel == 5
MaxStreak == 8

CalcScores == 0..MaxScore
HugeLevels == {922337200, 922337201, 922337202, 922337204}
CalcLevels == (0..MaxLevel) \cup HugeLevels
CalcStreaks == 0..MaxStreak

\* u64::MAX in units of 10 POKE: floor((2^64 - 1) / 10^10)
U64MaxDecaPoke == 1844674407

\* The result of u64 arithmetic: the value, or on overflow a panic (overflow
\* checks on) or the value less 2^64 (overflow checks off)
Value(n) == [panic |-> FALSE, wraps |-> 0, amount |-> n]
Panic == [panic |-> TRUE, wraps |-> 0, amount |-> 0]
Wrapped(n) == [panic |-> FALSE, wraps |-> 1, amount |-> n]

\* calculate_battle_reward in u64.  Its amounts are multiples of 10 POKE and are
\* counted here in units of 10 POKE, in which u64::MAX is a number of the model;
\* the partial sums only grow, so an operation overflows exactly when the sum
\* does not fit.  For the levels of the model the sum is below 2 * 2^64.
calculate_battle_reward_u64(level, streak) ==
    LET base == BattleBaseReward \div 10
        level_bonus == level * 2
        streak_bonus == IF streak >= 3 THEN 2
                        ELSE IF streak >= 2 THEN 1
                        ELSE 0
        sum == base + level_bonus + streak_bonus
    IN  IF sum <= U64MaxDecaPoke THEN {Value(sum)} ELSE {Panic, Wrapped(sum)}

CalcInputs ==
    [fn : {"calculate_flypoke_reward"}, score : CalcScores, is_new_high_score : BOOLEAN,
     level : {0}, streak : {0}, out : {None}]
    \cup [fn : {"calculate_battle_reward"}, score : {0}, is_new_high_score : {FALSE},
          level : CalcLevels, streak : CalcStreaks, out : {None}]
    \cup [fn : {"calculate_login_reward"}, score : {0}, is_new_high_score : {FALSE},
          level : {0}, streak : CalcStreaks, out : {None}]

Pending(fn) == calc # None /\ Unwrap(calc).fn = fn /\ Unwrap(calc).out = None

CalculateFlyPoke ==
    /\ Pending("calculate_flypoke_reward")
    /\ LET c == Unwrap(calc)
       IN  calc' = Some([c EXCEPT !.out =
               Some(Value(calculate_flypoke_reward(c.score, c.is_new_high_score)))])
    /\ UNCHANGED <<storage, now, tasks, limit_hit, login_dates, capacity, locks>>

CalculateBattle ==
    /\ Pending("calculate_battle_reward")
    /\ LET c == Unwrap(calc)
       IN  \E out \in calculate_battle_reward_u64(c.level, c.streak) :
               calc' = Some([c EXCEPT !.out = Some(out)])
    /\ UNCHANGED <<storage, now, tasks, limit_hit, login_dates, capacity, locks>>

CalculateLogin ==
    /\ Pending("calculate_login_reward")
    /\ LET c == Unwrap(calc)
       IN  calc' = Some([c EXCEPT !.out = Some(Value(calculate_login_reward(c.streak)))])
    /\ UNCHANGED <<storage, now, tasks, limit_hit, login_dates, capacity, locks>>


\* calculate_login_reward over a configured LoginConfig: only the keys 7 and 3
\* of streak_rewards are ever looked up (calculator.rs:74-84)
calculate_login_reward_with(streak_rewards, daily_reward, streak) ==
    IF streak >= 7 /\ 7 \in DOMAIN streak_rewards THEN streak_rewards[7]
    ELSE IF streak >= 3 /\ 3 \in DOMAIN streak_rewards THEN streak_rewards[3]
    ELSE daily_reward

\* LoginConfig.streak_rewards: any map from thresholds to bonuses
Thresholds == {3, 5, 7}
Bonuses == {StreakReward3, StreakReward7}
StreakTables == UNION {[keys -> Bonuses] : keys \in SUBSET Thresholds}

TableInputs ==
    [fn : {"calculate_login_reward"}, streak_rewards : StreakTables,
     streak : CalcStreaks, out : {None}]

CalculateLoginConfigured ==
    /\ Pending("calculate_login_reward")
    /\ LET c == Unwrap(calc)
       IN  calc' = Some([c EXCEPT !.out = Some(Value(
               calculate_login_reward_with(c.streak_rewards, LoginDailyReward, c.streak)))])
    /\ UNCHANGED <<storage, now, tasks, limit_hit, login_dates, capacity, locks>>


\* ------------------------------------------------- MemoryStorage's RwLocks
\* The one lock each storage method takes, by the call's position: `.read()`
\* or `.write()` on rewards, daily_stats or login_streaks
LockOf(pc) ==
    CASE pc = "limit_check" -> [lock |-> "daily_stats", mode |-> "read"]
      [] pc = "stats_read" -> [lock |-> "daily_stats", mode |-> "read"]
      [] pc = "stats_write" -> [lock |-> "daily_stats", mode |-> "write"]
      [] pc = "get_streak" -> [lock |-> "login_streaks", mode |-> "read"]
      [] pc = "update_streak" -> [lock |-> "login_streaks", mode |-> "write"]
      [] pc = "has_welcome" -> [lock |-> "rewards", mode |-> "read"]
      [] pc = "create" -> [lock |-> "rewards", mode |-> "write"]
      [] pc = "claim" -> [lock |-> "rewards", mode |-> "write"]

StorageCalls == {"limit_check", "stats_read", "stats_write", "get_streak",
                 "update_streak", "has_welcome", "create", "claim"}

\* the guards held on one lock, by any call
Holders(lock) == UNION {{l \in locks[t] : l.lock = lock} : t \in Tasks}

\* RwLock: a writer needs the lock free, a reader needs it free of writers
Available(wanted) ==
    IF wanted.mode = "write" THEN Holders(wanted.lock) = {}
    ELSE \A l \in Holders(wanted.lock) : l.mode = "read"

\* the call is inside a storage method: it holds the guard taken for it
InCall(t) == \E l \in locks[t] : l.at = tasks[t].pc

\* `self.<map>.read().await` / `.write().await`, the first statement of every
\* storage method; the previous method dropped its guard when it returned
Acquire(t) ==
    /\ tasks[t].pc \in StorageCalls
    /\ locks[t] = {}
    /\ Available(LockOf(tasks[t].pc))
    /\ locks' = [locks EXCEPT ![t] =
          {[lock |-> LockOf(tasks[t].pc).lock, mode |-> LockOf(tasks[t].pc).mode,
            at |-> tasks[t].pc]}]
    /\ UNCHANGED <<storage, now, tasks, limit_hit, login_dates, capacity, calc>>

\* faulty variant: the guards are kept until the handler returns
ReleaseAtHandlerReturn(t) ==
    /\ tasks[t].pc = "done"
    /\ \E l \in locks[t] : l.at # tasks[t].pc
    /\ locks' = [locks EXCEPT ![t] = {}]
    /\ UNCHANGED <<storage, now, tasks, limit_hit, login_dates, capacity, calc>>

\* the guard is a local of the storage method: dropped when the method returns
Release(t) ==
    /\ \E l \in locks[t] :
          /\ l.at # tasks[t].pc
          /\ locks' = [locks EXCEPT ![t] = locks[t] \ {l}]
    /\ UNCHANGED <<storage, now, tasks, limit_hit, login_dates, capacity, calc>>

\* claim_rewards as a call that waits for the rewards lock
BeginClaimRewards(t, p) ==
    /\ Free(t)
    /\ tasks' = [tasks EXCEPT ![t] = [Call("Claim", p, 0) EXCEPT !.pc = "claim"]]
    /\ UNCHANGED <<storage, now, history>>

MarkAllRewardsClaimed(t) ==
    /\ tasks[t].pc = "claim"
    /\ rewards' = mark_all_rewards_claimed(tasks[t].player)
    /\ tasks' = [tasks EXCEPT ![t] = Returned(tasks[t], OkUnit)]
    /\ UNCHANGED <<daily_stats, login_streaks, now, history>>

\* a caller gets its response, and may call again, once nothing is held
Invoke(t) ==
    /\ locks[t] = {}
    /\ \/ BeginLogin(t, "alice")
       \/ BeginWelcome(t, "alice")
       \/ BeginClaimRewards(t, "alice")

\* the body of a storage method, run under its guard
Method(t) ==
    /\ InCall(t)
    /\ \/ GetStreak(t)
       \/ UpdateStreak(t)
       \/ HasWelcome(t)
       \/ CreateReward(t)
       \/ StatsRead(t)
       \/ StatsWrite(t)
       \/ MarkAllRewardsClaimed(t)


\* ----------------------------------------------------------- specifications
\* The engine over MemoryStorage, one call at a time: every handler, for one
\* player, with the clock free to advance between any two steps.
Next ==
    \/ \E score \in Scores, hs \in HighScores : BeginFlyPoke("t1", "alice", score, hs)
    \/ \E level \in Levels, streak \in BattleStreaks :
          BeginBattle("t1", "alice", level, streak)
    \/ BeginLogin("t1", "alice")
    \/ BeginWelcome("t1", "alice")
    \/ ClaimRewards("t1", "alice")
    \/ LimitCheck("t1")
    \/ GetStreak("t1")
    \/ UpdateStreak("t1")
    \/ HasWelcome("t1")
    \/ CreateReward("t1")
    \/ StatsRead("t1")
    \/ StatsWrite("t1")
    \/ NoteLimitHit("t1")
    \/ Tick

Spec == Init /\ [][Next]_vars

\* process_login_event alone, for every player, one call at a time
InitLogin == Empty(MaxLogins)

NextLogin ==
    \/ \E p \in Players : BeginLogin("t1", p)
    \/ GetStreak("t1")
    \/ UpdateStreak("t1")
    \/ CreateReward("t1")
    \/ StatsRead("t1")
    \/ StatsWrite("t1")
    \/ Tick

SpecLogin == InitLogin /\ [][NextLogin]_vars

\* Two callers at once: the calls of one player interleave at their await points
InitConcurrent == Empty(MaxConcurrentRewards)

NextConcurrent ==
    \/ \E t \in Tasks, level \in ConcurrentLevels, streak \in BattleStreaks :
          BeginBattle(t, "alice", level, streak)
    \/ \E t \in Tasks : BeginLogin(t, "alice")
    \/ \E t \in Tasks : LimitCheck(t)
    \/ \E t \in Tasks : GetStreak(t)
    \/ \E t \in Tasks : UpdateStreak(t)
    \/ \E t \in Tasks : CreateReward(t)
    \/ \E t \in Tasks : StatsRead(t)
    \/ \E t \in Tasks : StatsWrite(t)
    \/ Tick

SpecConcurrent == InitConcurrent /\ [][NextConcurrent]_vars

\* The engine over a Storage whose calls may fail, one call at a time
NextFaulty ==
    \/ Next
    \/ StorageFail("t1")

SpecFaulty == Init /\ [][NextFaulty]_vars

\* claim_rewards among the events of two players, one call at a time
MaxClaimRewards == 3

InitClaim == Empty(MaxClaimRewards)

NextClaim ==
    \/ \E p \in Players, score \in Scores : BeginFlyPoke("t1", p, score, FALSE)
    \/ \E p \in Players : BeginWelcome("t1", p)
    \/ \E p \in Players : ClaimRewards("t1", p)
    \/ LimitCheck("t1")
    \/ HasWelcome("t1")
    \/ CreateReward("t1")
    \/ StatsRead("t1")
    \/ StatsWrite("t1")

SpecClaim == InitClaim /\ [][NextClaim]_vars

\* The read queries of two callers among the events and claims of one player on
\* one day: a query is one storage call, so it may fall between any two steps of
\* a handler
QueryPlayers == {"alice"}

NextQueries ==
    \/ \E score \in Scores : BeginFlyPoke("t1", "alice", score, FALSE)
    \/ BeginLogin("t1", "alice")
    \/ ClaimRewards("t1", "alice")
    \/ LimitCheck("t1")
    \/ GetStreak("t1")
    \/ UpdateStreak("t1")
    \/ CreateReward("t1")
    \/ StatsRead("t1")
    \/ StatsWrite("t1")
    \/ \E t \in Tasks, p \in QueryPlayers : GetRewards(t, p)
    \/ \E t \in Tasks, p \in QueryPlayers : GetPendingRewards(t, p)
    \/ \E t \in Tasks, p \in QueryPlayers, date \in Days : GetDailyStats(t, p, date)

SpecQueries == Init /\ [][NextQueries]_vars

\* Every event through process_game_event, one call at a time, on one day
NextDispatch ==
    \/ \E event \in GameEvents : ProcessGameEvent("t1", event)
    \/ LimitCheck("t1")
    \/ GetStreak("t1")
    \/ UpdateStreak("t1")
    \/ HasWelcome("t1")
    \/ CreateReward("t1")
    \/ StatsRead("t1")
    \/ StatsWrite("t1")

SpecDispatch == Init /\ [][NextDispatch]_vars

\* The calculator's functions applied to each of their inputs
InitCalculator ==
    /\ rewards = <<>>
    /\ daily_stats = <<>>
    /\ login_streaks = <<>>
    /\ now = 0
    /\ tasks = [t \in Tasks |-> Idle]
    /\ limit_hit = None
    /\ login_dates = {}
    /\ capacity = 0
    /\ \E c \in CalcInputs : calc = Some(c)
    /\ locks = [t \in Tasks |-> {}]

NextCalculator ==
    \/ CalculateFlyPoke
    \/ CalculateBattle
    \/ CalculateLogin

SpecCalculator == InitCalculator /\ [][NextCalculator]_vars

\* calculate_login_reward applied to each streak under each configured table
InitLoginTables ==
    /\ rewards = <<>>
    /\ daily_stats = <<>>
    /\ login_streaks = <<>>
    /\ now = 0
    /\ tasks = [t \in Tasks |-> Idle]
    /\ limit_hit = None
    /\ login_dates = {}
    /\ capacity = 0
    /\ calc \in {Some(c) : c \in TableInputs}
    /\ locks = [t \in Tasks |-> {}]

NextLoginTables == CalculateLoginConfigured

SpecLoginTables == InitLoginTables /\ [][NextLoginTables]_vars


\* The reward records under every writer of the rewards map: the events, claims
\* and mark_reward_claimed calls of two callers, interleaved at their await points
MaxRecordRewards == 2

InitRecords == Empty(MaxRecordRewards)

NextRecords ==
    \/ \E t \in Tasks, score \in Scores : BeginFlyPoke(t, "alice", score, FALSE)
    \/ \E t \in Tasks : BeginWelcome(t, "alice")
    \/ \E t \in Tasks : ClaimRewards(t, "alice")
    \/ \E t \in Tasks, id \in 1..MaxRecordRewards : MarkRewardClaimed(t, id)
    \/ \E t \in Tasks : LimitCheck(t)
    \/ \E t \in Tasks : HasWelcome(t)
    \/ \E t \in Tasks : CreateReward(t)
    \/ \E t \in Tasks : StatsRead(t)
    \/ \E t \in Tasks : StatsWrite(t)

SpecRecords == InitRecords /\ [][NextRecords]_vars


\* The calls of two callers over the three RwLocks of MemoryStorage: every
\* storage call is acquire, body, release
MaxLockRewards == 2

InitLocks == Empty(MaxLockRewards)

NextLocks ==
    \/ \E t \in Tasks : Invoke(t)
    \/ \E t \in Tasks : Acquire(t)
    \/ \E t \in Tasks : Method(t)
    \/ \E t \in Tasks : Release(t)

SpecLocks == InitLocks /\ [][NextLocks]_vars

\* Fair scheduling: the runtime polls every call that can take a step, and
\* tokio's RwLock serves its waiters in FIFO order, so a waiter for a lock that
\* is free again and again gets it
FairLocks ==
    \A t \in Tasks :
        /\ WF_vars(Method(t))
        /\ WF_vars(Release(t))
        /\ SF_vars(Acquire(t))

SpecLocksFair == SpecLocks /\ FairLocks


\* The events, claims and queries of two players on one day, one call at a time
MaxPlayerRewards == 3

InitPlayers == Empty(MaxPlayerRewards)

NextPlayers ==
    \/ \E p \in Players, level \in Levels, streak \in BattleStreaks :
          BeginBattle("t1", p, level, streak)
    \/ \E p \in Players : BeginLogin("t1", p)
    \/ \E p \in Players : BeginWelcome("t1", p)
    \/ \E p \in Players : ClaimRewards("t1", p)
    \/ \E p \in Players : GetPendingRewards("t1", p)
    \/ LimitCheck("t1")
    \/ GetStreak("t1")
    \/ UpdateStreak("t1")
    \/ HasWelcome("t1")
    \/ CreateReward("t1")
    \/ StatsRead("t1")
    \/ StatsWrite("t1")

SpecPlayers == InitPlayers /\ [][NextPlayers]_vars


\* ------------------------------------------------------------------- claims
\* The reward records of one player and game
RecordsOf(p, game) ==
    {id \in DOMAIN rewards : rewards[id].player_id = p /\ rewards[id].game = game}

Limit(game) == Unwrap(get_daily_limit(game))

\* C1: the FlyPoke and the Battle sum of every stored DailyStats stay within the
\* game's configured daily limit.
C1_AggregateWithinLimit ==
    \A k \in DOMAIN daily_stats :
        /\ daily_stats[k].flypoke <= Limit("FlyPoke")
        /\ daily_stats[k].battle <= Limit("Battle")

\* A call that returned after the noted limit rejection, for its player, game and day
AfterLimitHit(t) ==
    /\ limit_hit # None
    /\ tasks[t].pc = "done"
    /\ tasks[t].resp.result = "Ok"
    /\ tasks[t].player = Unwrap(limit_hit).player
    /\ tasks[t].game = Unwrap(limit_hit).game
    /\ tasks[t].today = Unwrap(limit_hit).today

C7_WelcomeAtMostOnce ==
    \A p \in Players : Cardinality(RecordsOf(p, "Welcome")) <= 1

\* C8: every stored DailyStats has total = flypoke + battle + login.
C8_TotalIsSum ==
    \A k \in DOMAIN daily_stats :
        daily_stats[k].total =
            daily_stats[k].flypoke + daily_stats[k].battle + daily_stats[k].login

\* C8 witness: an aggregate that several updates of different games have built
C8_Witness ==
    \E k \in DOMAIN daily_stats :
        /\ daily_stats[k].login > 0
        /\ daily_stats[k].flypoke + daily_stats[k].battle > 0
        /\ daily_stats[k].total > daily_stats[k].login

\* C10: a capped-game event rejected for the daily limit returns success=false,
\* no reward and daily_limit_reached=true, and rewards, daily aggregates and
\* login streaks are as they were when the event was submitted.
C10_LimitRejectionChangesNothing ==
    (tasks["t1"].pc = "done" /\ tasks["t1"].resp.daily_limit_reached)
        => /\ tasks["t1"].game \in {"FlyPoke", "Battle"}
           /\ tasks["t1"].resp.result = "Ok"
           /\ ~tasks["t1"].resp.success
           /\ tasks["t1"].resp.reward = None
           /\ tasks["t1"].before = Some(storage)

\* C10 witness: a limit rejection over a storage that holds records and aggregates
C10_Witness ==
    /\ tasks["t1"].pc = "done"
    /\ tasks["t1"].resp.daily_limit_reached
    /\ DOMAIN rewards # {}
    /\ DOMAIN daily_stats # {}
\* The login streaks a returned call started from
StreaksBefore(t) == Unwrap(tasks[t].before)[3]

AcceptedLogin(t) ==
    /\ tasks[t].pc = "done"
    /\ tasks[t].game = "Login"
    /\ tasks[t].resp.success

\* The number of consecutive dates, ending at d, on which p got a login reward
RunLength(p, d) ==
    CHOOSE k \in 0..(MaxDay + 1) :
        /\ \A i \in 0..(k - 1) : <<p, d - i>> \in login_dates
        /\ <<p, d - k>> \notin login_dates

\* C4: an accepted login on date d stores last-login d and streak 1 when there
\* was no state, previous streak + 1 when the last login was on d-1, and 1 when
\* it was before d-1; hence the stored streak is the number of consecutive days,
\* up to the last login, on which the player logged in (1,2,3,... and 1 after a gap).
C4_LoginStreakRule ==
    /\ AcceptedLogin("t1") =>
          LET p == tasks["t1"].player
              d == tasks["t1"].today
              old == StreaksBefore("t1")
              new == login_streaks[p]
          IN  /\ new.last_login_date = d
              /\ p \notin DOMAIN old => new.current_streak = 1
              /\ (p \in DOMAIN old /\ old[p].last_login_date = d - 1)
                    => new.current_streak = old[p].current_streak + 1
              /\ (p \in DOMAIN old /\ old[p].last_login_date < d - 1)
                    => new.current_streak = 1
    /\ Free("t1") =>
          \A p \in DOMAIN login_streaks :
              login_streaks[p].current_streak =
                  RunLength(p, login_streaks[p].last_login_date)

\* C4 witness: a third login on a third consecutive day was accepted
C4_Witness ==
    /\ AcceptedLogin("t1")
    /\ login_streaks[tasks["t1"].player].current_streak = 3
    /\ tasks["t1"].resp.reward # None

\* C5: a login of a player whose stored last-login date is today is rejected
\* without a reward and leaves streaks, reward records and aggregates as they
\* were; so no two Login reward records of a player come from logins of the
\* same date.
C5_SameDayLoginRejected ==
    /\ LET p == tasks["t1"].player
           old == StreaksBefore("t1")
       IN  (/\ tasks["t1"].pc = "done"
            /\ tasks["t1"].game = "Login"
            /\ p \in DOMAIN old
            /\ old[p].last_login_date = tasks["t1"].today)
           => /\ tasks["t1"].resp.result = "Ok"
              /\ ~tasks["t1"].resp.success
              /\ tasks["t1"].resp.reward = None
              /\ ~tasks["t1"].resp.daily_limit_reached
              /\ tasks["t1"].before = Some(storage)
    /\ \A p \in Players :
          Cardinality(RecordsOf(p, "Login")) =
              Cardinality({e \in login_dates : e[1] = p})

\* C5 witness: a second login on the date of an accepted one was rejected
C5_Witness ==
    /\ tasks["t1"].pc = "done"
    /\ tasks["t1"].game = "Login"
    /\ ~tasks["t1"].resp.success
    /\ tasks["t1"].player \in DOMAIN login_streaks
    /\ login_streaks[tasks["t1"].player].last_login_date = tasks["t1"].today
    /\ RecordsOf(tasks["t1"].player, "Login") # {}
\* A call that passed the daily-limit check and has not returned yet
PassedCheck(t) ==
    /\ tasks[t].pc \in {"create", "stats_read", "stats_write"}
    /\ tasks[t].game \in {"FlyPoke", "Battle"}

\* C3: two concurrent events of one player and game never both pass the limit
\* check on the same aggregate when together they take the game's sum of that
\* day over the daily limit.
C3_NoStaleDoublePass ==
    \A t, u \in Tasks :
        (/\ t # u
         /\ PassedCheck(t) /\ PassedCheck(u)
         /\ tasks[t].player = tasks[u].player
         /\ tasks[t].game = tasks[u].game
         /\ tasks[t].today = tasks[u].today
         /\ tasks[t].checked # None
         /\ tasks[t].checked = tasks[u].checked)
        => GameSum(Unwrap(tasks[t].checked), tasks[t].game)
              + tasks[t].amount + tasks[u].amount <= Limit(tasks[t].game)

\* C6: of two logins of one player for the same date, at most one is accepted.
C6_OneLoginPerDay ==
    \A t, u \in Tasks :
        (/\ t # u
         /\ AcceptedLogin(t) /\ AcceptedLogin(u)
         /\ tasks[t].player = tasks[u].player)
        => tasks[t].today # tasks[u].today
\* C9: when a storage call fails while a FlyPoke, Battle or Login event is
\* processed, the event returns a fault and rewards, aggregates and streaks are
\* as they were before it.
C9_NoPartialEffects ==
    (/\ tasks["t1"].pc = "done"
     /\ tasks["t1"].game \in {"FlyPoke", "Battle", "Login"}
     /\ tasks["t1"].resp.result = "Storage")
    => tasks["t1"].before = Some(storage)

\* The storage a returned call started from
RewardsBefore(t) == Unwrap(tasks[t].before)[1]
StatsBefore(t) == Unwrap(tasks[t].before)[2]

\* The unclaimed records of player p in a rewards map
Unclaimed(map, p) == {id \in DOMAIN map : map[id].player_id = p /\ ~map[id].claimed}

ClaimReturned(t) == tasks[t].pc = "done" /\ tasks[t].game = "Claim"

\* C11: claim_rewards(p) returns Ok and leaves the same records, every record of
\* p claimed and otherwise as it was, every record of another player, every
\* aggregate and every streak as it was; p then has no unclaimed record, and a
\* claim_rewards(p) that finds no unclaimed record of p changes nothing.
C11_ClaimMarksAllOfPlayer ==
    ClaimReturned("t1") =>
        LET p == tasks["t1"].player
            old == RewardsBefore("t1")
        IN  /\ tasks["t1"].resp.result = "Ok(())"
            /\ DOMAIN rewards = DOMAIN old
            /\ \A id \in DOMAIN old :
                  rewards[id] = IF old[id].player_id = p
                                THEN [old[id] EXCEPT !.claimed = TRUE]
                                ELSE old[id]
            /\ Unclaimed(rewards, p) = {}
            /\ Cardinality({id \in DOMAIN rewards : rewards[id].player_id = p}) =
                  Cardinality({id \in DOMAIN old : old[id].player_id = p})
            /\ daily_stats = StatsBefore("t1")
            /\ login_streaks = StreaksBefore("t1")
            /\ Unclaimed(old, p) = {} => Some(storage) = tasks["t1"].before

\* C11 witness: a claim for a player who had a claimed and an unclaimed record,
\* while another player had an unclaimed one
C11_Witness ==
    /\ ClaimReturned("t1")
    /\ LET p == tasks["t1"].player
           old == RewardsBefore("t1")
       IN  /\ Unclaimed(old, p) # {}
           /\ \E id \in DOMAIN old : old[id].player_id = p /\ old[id].claimed
           /\ \E q \in Players \ {p} : Unclaimed(old, q) # {}

Queries == {"get_rewards", "get_pending_rewards", "get_daily_stats"}

QueryReturned(t) == tasks[t].pc = "done" /\ tasks[t].game \in Queries

\* A step in which a read query returns to caller t
QueryStep(t) == tasks'[t] # tasks[t] /\ tasks'[t].pc = "done" /\ tasks'[t].game \in Queries

\* Two returned calls of the same query with the same arguments
SameQuery(t, u) ==
    /\ QueryReturned(t) /\ QueryReturned(u)
    /\ tasks[t].game = tasks[u].game
    /\ tasks[t].player = tasks[u].player
    /\ tasks[t].today = tasks[u].today

\* C12: a step in which get_rewards, get_pending_rewards or get_daily_stats
\* returns leaves rewards, aggregates and streaks unchanged, wherever it falls
\* among the steps of the other operations; and two calls of the same query with
\* the same arguments that found the same stored state returned the same result.
C12_QueriesArePure ==
    /\ [][\A t \in Tasks : QueryStep(t) => storage' = storage]_vars
    /\ [](\A t, u \in Tasks :
            (SameQuery(t, u) /\ tasks[t].before = tasks[u].before)
                => tasks[t].resp = tasks[u].resp)

\* C12 witness: two calls of get_pending_rewards that found the same stored
\* state, with rewards and aggregates in it, returned the same pending records
C12_Witness ==
    /\ SameQuery("t1", "t2")
    /\ tasks["t1"].before = tasks["t2"].before
    /\ tasks["t1"].game = "get_pending_rewards"
    /\ tasks["t1"].resp.reward # {}
    /\ DOMAIN daily_stats # {}

\* C13: process_game_event of a PokeMatch or Pokedex event returns
\* Err(InvalidGameType), no response, and leaves rewards, aggregates and streaks
\* as they were.
C13_UnknownKindIsFault ==
    (tasks["t1"].pc = "done" /\ tasks["t1"].game \in {"PokeMatch", "Pokedex"})
        => /\ tasks["t1"].resp.result = "InvalidGameType"
           /\ ~tasks["t1"].resp.success
           /\ tasks["t1"].resp.reward = None
           /\ tasks["t1"].before = Some(storage)

\* C13 witness: a Pokedex event was faulted over a storage that holds records
C13_Witness ==
    /\ tasks["t1"].pc = "done"
    /\ tasks["t1"].game = "Pokedex"
    /\ tasks["t1"].resp.result = "InvalidGameType"
    /\ DOMAIN rewards # {}
    /\ DOMAIN daily_stats # {}

\* The FlyPoke and Battle events whose payload does not decode
Undecodable ==
    {event \in GameEvents :
        \/ event.game = "FlyPoke" /\ from_value_FlyPokeEventData(event.event_data) = None
        \/ event.game = "Battle" /\ from_value_BattleEventData(event.event_data) = None}

\* C14: process_game_event of a FlyPoke or Battle event whose payload fails to
\* decode returns Err(Serialization) in that one step, which leaves rewards,
\* aggregates and streaks unchanged; and whenever such a fault has been returned
\* the storage is the one the call started from.
C14_DecodeFailureTouchesNothing ==
    /\ [][\A event \in Undecodable :
            ProcessGameEvent("t1", event)
                => /\ tasks'["t1"].pc = "done"
                   /\ tasks'["t1"].resp.result = "Serialization"
                   /\ tasks'["t1"].resp.reward = None
                   /\ storage' = storage]_vars
    /\ []((tasks["t1"].pc = "done" /\ tasks["t1"].resp.result = "Serialization")
            => /\ tasks["t1"].game \in {"FlyPoke", "Battle"}
               /\ tasks["t1"].before = Some(storage))

\* C14 witness: a FlyPoke event was faulted for its payload over a storage that
\* holds records
C14_Witness ==
    /\ tasks["t1"].pc = "done"
    /\ tasks["t1"].game = "FlyPoke"
    /\ tasks["t1"].resp.result = "Serialization"
    /\ DOMAIN rewards # {}
    /\ DOMAIN daily_stats # {}

\* A call of the calculator that returned or panicked
Calculated(fn) == calc # None /\ Unwrap(calc).fn = fn /\ Unwrap(calc).out # None

\* The FlyPoke tier of a score, by the breakpoints [0,501) [501,1001) [1001,2000) [2000,..)
FlyPokeTier(score) ==
    IF score < 501 THEN 10
    ELSE IF score < 1001 THEN 25
    ELSE IF score < 2000 THEN 50
    ELSE 100

\* C15: calculate_flypoke_reward(score, is_new_high_score) is the amount of the
\* score's tier, plus the high-score bonus of 20 exactly when is_new_high_score;
\* the tier amounts increase strictly from tier to tier.
C15_FlyPokeTiers ==
    /\ Calculated("calculate_flypoke_reward") =>
          LET c == Unwrap(calc)
          IN  c.out = Some(Value(FlyPokeTier(c.score)
                                   + IF c.is_new_high_score THEN 20 ELSE 0))
    /\ \A s1, s2 \in {0, 501, 1001, 2000} :
          s1 < s2 => calculate_flypoke_reward(s1, FALSE) < calculate_flypoke_reward(s2, FALSE)

\* C15 witness: score 2500 with a new high score gave the top tier and the bonus
C15_Witness ==
    /\ Calculated("calculate_flypoke_reward")
    /\ Unwrap(calc).score = 2500
    /\ Unwrap(calc).is_new_high_score
    /\ Unwrap(calc).out = Some(Value(120))

\* C16: calculate_battle_reward(level, streak) returns base + level * 20 POKE +
\* the streak bonus, which is 20 POKE for a streak >= 3, 10 POKE for a streak of
\* 2 and 0 otherwise (amounts in units of 10 POKE).
C16_BattleRewardFormula ==
    Calculated("calculate_battle_reward") =>
        LET c == Unwrap(calc)
            streak_bonus == IF c.streak >= 3 THEN 2 ELSE IF c.streak = 2 THEN 1 ELSE 0
        IN  c.out = Some(Value(BattleBaseReward \div 10 + c.level * 2 + streak_bonus))

\* C17: calculate_login_reward gives a streak of 7 (or more) the bonus of
\* threshold 7 and not that of threshold 3, a streak of 3 to 6 the bonus of
\* threshold 3, and a shorter streak the flat daily reward.
C17_LoginHighestThresholdFirst ==
    Calculated("calculate_login_reward") =>
        LET c == Unwrap(calc)
        IN  /\ c.streak >= 7 => (c.out = Some(Value(StreakReward7))
                                  /\ c.out # Some(Value(StreakReward3)))
            /\ (c.streak >= 3 /\ c.streak < 7) => c.out = Some(Value(StreakReward3))
            /\ c.streak < 3 => c.out = Some(Value(LoginDailyReward))

\* C17 witness: a streak of exactly 7 got the bonus of threshold 7
C17_Witness ==
    /\ Calculated("calculate_login_reward")
    /\ Unwrap(calc).streak = 7
    /\ Unwrap(calc).out = Some(Value(StreakReward7))

\* The sum of a call's game in the aggregate of its player and day that was
\* stored when the call started, an absent aggregate counting as 0
SumBefore(t) ==
    LET found == Get(StatsBefore(t), <<tasks[t].player, tasks[t].today>>)
    IN  IF found = None THEN 0 ELSE GameSum(Unwrap(found), tasks[t].game)

\* C18: a FlyPoke or Battle event is rejected for the daily limit exactly when
\* the stored sum of its game for the player and day, 0 without an aggregate,
\* plus its amount is above the limit: an event that got past the check, or was
\* accepted, fits the limit, and a rejected one does not.
C18_LimitDecision ==
    /\ (PassedCheck("t1") \/ (tasks["t1"].pc = "done" /\ tasks["t1"].resp.success
                               /\ tasks["t1"].game \in {"FlyPoke", "Battle"}))
          => SumBefore("t1") + tasks["t1"].amount <= Limit(tasks["t1"].game)
    /\ (tasks["t1"].pc = "done" /\ tasks["t1"].resp.daily_limit_reached)
          => SumBefore("t1") + tasks["t1"].amount > Limit(tasks["t1"].game)

\* A FlyPoke or Battle event that returned success
AcceptedCapped(t) ==
    /\ tasks[t].pc = "done"
    /\ tasks[t].game \in {"FlyPoke", "Battle"}
    /\ tasks[t].resp.success

\* An aggregate, or the all-zero one when none is stored
StatsOrZero(map, p, date) ==
    IF <<p, date>> \in DOMAIN map THEN map[<<p, date>>]
    ELSE [player_id |-> p, date |-> date, flypoke |-> 0, battle |-> 0, login |-> 0, total |-> 0]

\* C19: after an accepted FlyPoke or Battle event the rewards are the ones from
\* before plus one record under a new id, with the event's player and game, the
\* amount the call computed, claimed=false and no transaction signature; the
\* response is success with that record; and one aggregate of the player, that of
\* the current date, has the game's sum raised by that amount from its old value
\* (0 if it was absent) with its other sums as before, all others being unchanged.
C19_AcceptedEventEffects ==
    AcceptedCapped("t1") =>
        LET task == tasks["t1"]
            old == RewardsBefore("t1")
            oldStats == StatsBefore("t1")
            new == DOMAIN rewards \ DOMAIN old
        IN  /\ DOMAIN old \subseteq DOMAIN rewards
            /\ \A id \in DOMAIN old : rewards[id] = old[id]
            /\ Cardinality(new) = 1
            /\ \A id \in new :
                  /\ rewards[id].id = id
                  /\ rewards[id].player_id = task.player
                  /\ rewards[id].game = task.game
                  /\ rewards[id].amount = task.amount
                  /\ ~rewards[id].claimed
                  /\ rewards[id].transaction_signature = None
                  /\ rewards[id].day \in task.today..now
                  /\ task.resp.reward = Some(rewards[id])
            /\ task.resp.result = "Ok" /\ ~task.resp.daily_limit_reached
            /\ DOMAIN oldStats \subseteq DOMAIN daily_stats
            /\ \E date \in task.today..now :
                  LET was == StatsOrZero(oldStats, task.player, date)
                      is == StatsOrZero(daily_stats, task.player, date)
                  IN  /\ <<task.player, date>> \in DOMAIN daily_stats
                      /\ GameSum(is, task.game) = GameSum(was, task.game) + task.amount
                      /\ is.login = was.login
                      /\ task.game = "FlyPoke" => is.battle = was.battle
                      /\ task.game = "Battle" => is.flypoke = was.flypoke
                      /\ is.player_id = task.player /\ is.date = date
                      /\ \A k \in DOMAIN daily_stats \ {<<task.player, date>>} :
                            k \in DOMAIN oldStats /\ daily_stats[k] = oldStats[k]
            /\ login_streaks = StreaksBefore("t1")

\* C19 witness: an accepted Battle event added its amount to an aggregate that
\* already held a FlyPoke sum, and its record to earlier ones
C19_Witness ==
    /\ AcceptedCapped("t1")
    /\ tasks["t1"].game = "Battle"
    /\ DOMAIN RewardsBefore("t1") # {}
    /\ \E k \in DOMAIN StatsBefore("t1") :
          /\ k \in DOMAIN daily_stats
          /\ StatsBefore("t1")[k].flypoke > 0
          /\ daily_stats[k].battle = StatsBefore("t1")[k].battle + tasks["t1"].amount

\* The sum of the amounts of a set of reward records
RECURSIVE SumAmounts(_)
SumAmounts(ids) ==
    IF ids = {} THEN 0
    ELSE LET id == CHOOSE i \in ids : TRUE
         IN  rewards[id].amount + SumAmounts(ids \ {id})

\* C20: once all concurrently processed events have returned, each per-game sum
\* of the aggregate of a player and day is the sum of the amounts of the player's
\* reward records of that game created on that day (stated for the day the run
\* starts on, while the clock has not left it).
C20_NoLostUpdate ==
    ((\A t \in Tasks : Free(t)) /\ now = 0) =>
        \A p \in Players, game \in {"FlyPoke", "Battle", "Login"} :
            GameSum(StatsOrZero(daily_stats, p, 0), game) =
                SumAmounts({id \in RecordsOf(p, game) : rewards[id].day = 0})

\* C21: in every step, also of interleaved calls of one player, each stored
\* aggregate stays stored and none of its per-game sums nor its total gets smaller.
C21_AggregateNeverDecreases ==
    [][\A k \in DOMAIN daily_stats :
          /\ k \in DOMAIN daily_stats'
          /\ daily_stats'[k].flypoke >= daily_stats[k].flypoke
          /\ daily_stats'[k].battle >= daily_stats[k].battle
          /\ daily_stats'[k].login >= daily_stats[k].login
          /\ daily_stats'[k].total >= daily_stats[k].total]_vars

\* A Welcome call that returned
WelcomeReturned(t) == tasks[t].pc = "done" /\ tasks[t].game = "Welcome"

C23_WelcomeOutsideAggregates ==
    WelcomeReturned("t1") =>
        /\ daily_stats = StatsBefore("t1")
        /\ login_streaks = StreaksBefore("t1")
        /\ ~tasks["t1"].resp.daily_limit_reached
        /\ get_daily_limit("Welcome") = None

\* C23 witness: a Welcome event was accepted over stored aggregates and streaks
C23_Witness ==
    /\ WelcomeReturned("t1")
    /\ tasks["t1"].resp.success
    /\ DOMAIN daily_stats # {}
    /\ DOMAIN login_streaks # {}

\* C24: after an accepted login the player's stored streak is a new one dated today,
\* the rewards are the ones from before plus one Login record of the player whose
\* amount is calculate_login_reward of the stored (post-update) streak length,
\* the login sum of one aggregate of the player, that of the current date, is
\* raised by exactly that amount with the other sums as before, and no login
\* is answered with daily_limit_reached.
C24_AcceptedLoginEffects ==
    /\ (tasks["t1"].pc = "done" /\ tasks["t1"].game = "Login")
          => ~tasks["t1"].resp.daily_limit_reached
    /\ AcceptedLogin("t1") =>
          LET task == tasks["t1"]
              old == RewardsBefore("t1")
              oldStats == StatsBefore("t1")
              new == DOMAIN rewards \ DOMAIN old
              due == calculate_login_reward(login_streaks[task.player].current_streak)
          IN  /\ task.player \in DOMAIN login_streaks
              /\ login_streaks[task.player].last_login_date = task.today
              /\ Get(StreaksBefore("t1"), task.player) # Some(login_streaks[task.player])
              /\ \A q \in DOMAIN login_streaks \ {task.player} :
                    q \in DOMAIN StreaksBefore("t1")
                    /\ login_streaks[q] = StreaksBefore("t1")[q]
              /\ DOMAIN old \subseteq DOMAIN rewards
              /\ \A id \in DOMAIN old : rewards[id] = old[id]
              /\ Cardinality(new) = 1
              /\ \A id \in new :
                    /\ rewards[id].player_id = task.player
                    /\ rewards[id].game = "Login"
                    /\ rewards[id].amount = due
                    /\ ~rewards[id].claimed
                    /\ task.resp.reward = Some(rewards[id])
              /\ \E date \in task.today..now :
                    LET was == StatsOrZero(oldStats, task.player, date)
                        is == StatsOrZero(daily_stats, task.player, date)
                    IN  /\ <<task.player, date>> \in DOMAIN daily_stats
                        /\ is.login = was.login + due
                        /\ is.flypoke = was.flypoke /\ is.battle = was.battle
                        /\ \A k \in DOMAIN daily_stats \ {<<task.player, date>>} :
                              k \in DOMAIN oldStats /\ daily_stats[k] = oldStats[k]

\* C24 witness: a login that raised the streak to 3 was accepted with the
\* 3-day bonus, over a stored streak of 2
C24_Witness ==
    /\ AcceptedLogin("t1")
    /\ tasks["t1"].player \in DOMAIN StreaksBefore("t1")
    /\ StreaksBefore("t1")[tasks["t1"].player].current_streak = 2
    /\ login_streaks[tasks["t1"].player].current_streak = 3
    /\ Unwrap(tasks["t1"].resp.reward).amount = StreakReward3

\* The thresholds of a table that a streak satisfies
Satisfied(streak_rewards, streak) == {k \in DOMAIN streak_rewards : streak >= k}

\* C25: under any configured table, calculate_login_reward returns the bonus of
\* the highest configured threshold the streak reaches, and the flat daily
\* reward when it reaches none.
C25_AnyTableHighestFirst ==
    Calculated("calculate_login_reward") =>
        LET c == Unwrap(calc)
            met == Satisfied(c.streak_rewards, c.streak)
        IN  Unwrap(c.out) =
               IF met = {} THEN Value(LoginDailyReward)
               ELSE Value(c.streak_rewards[CHOOSE k \in met : \A j \in met : j <= k])


\* The calls that moved in a step
Stepped == {t \in Tasks : tasks'[t] # tasks[t]}

\* C26: in every step every stored record stays stored with its id, player,
\* game and amount, a claimed record stays claimed, and a record becomes
\* claimed only in a step of claim_rewards or mark_reward_claimed.
C26_RecordsAppendOnly ==
    [][\A id \in DOMAIN rewards :
          /\ id \in DOMAIN rewards'
          /\ rewards'[id].id = rewards[id].id
          /\ rewards'[id].player_id = rewards[id].player_id
          /\ rewards'[id].game = rewards[id].game
          /\ rewards'[id].amount = rewards[id].amount
          /\ rewards[id].claimed => rewards'[id].claimed
          /\ (~rewards[id].claimed /\ rewards'[id].claimed) =>
                \A t \in Stepped :
                    tasks'[t].game \in {"Claim", "mark_reward_claimed"}]_vars

\* C26 witness: mark_reward_claimed has claimed one record, which stays stored
\* beside a later unclaimed one
C26_Witness ==
    \E t \in Tasks :
        /\ tasks[t].pc = "done" /\ tasks[t].game = "mark_reward_claimed"
        /\ tasks[t].resp.result = "Ok(())"
        /\ tasks[t].amount = 1
        /\ DOMAIN rewards = 1..2
        /\ rewards[1].claimed /\ ~rewards[2].claimed


\* A call that waits for a lock
Waiting(t) == tasks[t].pc \in StorageCalls /\ ~InCall(t)

\* Every call holds at most one guard, a write guard excludes every other guard
\* on its lock, a waiting call holds nothing unless it is about to drop it, and
\* whenever a call is unfinished or a guard is held some call can take a step
LockDiscipline ==
    /\ \A t \in Tasks : Cardinality(locks[t]) <= 1
    /\ \A t \in Tasks : \A l \in locks[t] :
          l.mode = "write" => Holders(l.lock) = {l} /\
                              \A u \in Tasks \ {t} : l \notin locks[u]
    /\ \A t \in Tasks : (Waiting(t) /\ locks[t] # {}) => ENABLED Release(t)
    /\ (\E t \in Tasks : ~Free(t) \/ locks[t] # {})
          => ENABLED (\E t \in Tasks : Acquire(t) \/ Method(t) \/ Release(t))

\* C27: the lock discipline holds in every state, and under fair scheduling
\* every invoked call returns with all its guards dropped.
C27_NoDeadlock ==
    /\ []LockDiscipline
    /\ \A t \in Tasks : (~Free(t)) ~> (tasks[t].pc = "done" /\ locks[t] = {})

\* C27 witness: one call holds the write guard of rewards while the other waits
\* for that lock
C27_Witness ==
    /\ \E l \in locks["t1"] : l.lock = "rewards" /\ l.mode = "write"
    /\ InCall("t1")
    /\ Waiting("t2") /\ locks["t2"] = {}
    /\ LockOf(tasks["t2"].pc).lock = "rewards"


\* A step of a call for player p leaves what the maps hold for the others
LeavesOthers(p) ==
    /\ \A id \in DOMAIN rewards :
          rewards[id].player_id # p => id \in DOMAIN rewards' /\ rewards'[id] = rewards[id]
    /\ \A id \in DOMAIN rewards' \ DOMAIN rewards : rewards'[id].player_id = p
    /\ \A k \in DOMAIN daily_stats :
          k[1] # p => k \in DOMAIN daily_stats' /\ daily_stats'[k] = daily_stats[k]
    /\ \A k \in DOMAIN daily_stats' \ DOMAIN daily_stats : k[1] = p
    /\ \A q \in DOMAIN login_streaks :
          q # p => q \in DOMAIN login_streaks' /\ login_streaks'[q] = login_streaks[q]
    /\ \A q \in DOMAIN login_streaks' \ DOMAIN login_streaks : q = p

\* A rejection a call returned has its cause in the state of the call's own player
OwnCause(t) ==
    LET task == tasks[t]
        p == task.player
    IN  (task.pc = "done" /\ task.game \in GameTypes /\ ~task.resp.success) =>
          /\ task.game = "Battle" =>
                /\ <<p, task.today>> \in DOMAIN StatsBefore(t)
                /\ StatsBefore(t)[<<p, task.today>>].battle + task.amount > BattleDailyLimit
          /\ task.game = "Login" =>
                /\ p \in DOMAIN StreaksBefore(t)
                /\ StreaksBefore(t)[p].last_login_date = task.today
          /\ task.game = "Welcome" =>
                \E id \in Unclaimed(RewardsBefore(t), p) :
                    RewardsBefore(t)[id].game = "Welcome"

\* C28: every step of an event, claim or query for one player leaves the reward
\* records, aggregates and streaks of every other player as they were and creates
\* none for them, and an event is rejected only for a cause in its own player's
\* records, aggregate or streak.
C28_PlayersIsolated ==
    /\ [][\A t \in Stepped : LeavesOthers(tasks'[t].player)]_vars
    /\ []OwnCause("t1")

\* C28 witness: bob's Welcome event was accepted, unclaimed, while alice, who
\* holds an unclaimed Welcome record, has reached her Battle limit
C28_Witness ==
    /\ WelcomeReturned("t1") /\ tasks["t1"].player = "bob" /\ tasks["t1"].resp.success
    /\ \E id \in Unclaimed(rewards, "alice") : rewards[id].game = "Welcome"
    /\ \E id \in Unclaimed(rewards, "bob") : rewards[id].game = "Welcome"
    /\ \E k \in DOMAIN daily_stats :
          k[1] = "alice" /\ daily_stats[k].battle >= BattleDailyLimit


\* C29: the aggregate update_daily_stats is about to write carries the date the
\* handler read at its start, the one its limit check and, for a login, its
\* streak used, also when the clock passed midnight in between.
C29_OneDatePerEvent ==
    tasks["t1"].pc = "stats_write" =>
        Unwrap(tasks["t1"].stats).date = tasks["t1"].today


====
